---- MODULE Spec2Model ----
(***************************************************************************)
(* A model of the Mandelbrot renderer of src/src/main.rs: the coordinate   *)
(* mapper pixel_to_point, the escape-time evaluator escape_time, render,   *)
(* and main's partition of the pixel buffer into bands rendered by         *)
(* crossbeam workers and handed to write_image after the scope joins.      *)
(*                                                                         *)
(* Floating point.  The program computes in IEEE-754 binary64 with         *)
(* round-to-nearest-even.  The model keeps that arithmetic and scales the  *)
(* significand down from 53 bits to Prec bits: a float is <<m, e>> with    *)
(* value m * 2^e, m odd (or <<0, 0>> for zero), |m| < 2^Prec, and every    *)
(* operation returns the correctly rounded exact result.  The exponent is  *)
(* not bounded: the inputs drawn here stay far from overflow and           *)
(* underflow, and NaN and the infinities are not modelled.                 *)
(*                                                                         *)
(* usize.  The model's image sizes keep width * height far below the       *)
(* usize range, so the products of main and render do not overflow here.   *)
(***************************************************************************)
EXTENDS Integers, Sequences, FiniteSets, TLC

\* Bits of significand of the model's floating-point format (binary64: 53).
Prec == 8

----------------------------------------------------------------------------
(* f64 arithmetic, round-to-nearest-even *)

Abs(x) == IF x < 0 THEN -x ELSE x

Sgn(x) == IF x < 0 THEN -1 ELSE IF x > 0 THEN 1 ELSE 0

Min2(a, b) == IF a <= b THEN a ELSE b

Max2(a, b) == IF a >= b THEN a ELSE b

RECURSIVE BitLen(_)
BitLen(n) == IF n = 0 THEN 0 ELSE 1 + BitLen(n \div 2)

\* The canonical representation of m * 2^e.
RECURSIVE Norm(_, _)
Norm(m, e) ==
    IF m = 0 THEN <<0, 0>>
    ELSE IF m % 2 = 0 THEN Norm(m \div 2, e + 1)
    ELSE <<m, e>>

\* The exact value M * 2^E rounded to Prec significant bits, ties to even.
Round(M, E) ==
    LET a == Abs(M)
        s == BitLen(a) - Prec
    IN  IF s <= 0 THEN Norm(M, E)
        ELSE LET q  == a \div (2 ^ s)
                 r  == a % (2 ^ s)
                 h  == 2 ^ (s - 1)
                 q1 == IF r > h \/ (r = h /\ q % 2 = 1) THEN q + 1 ELSE q
             IN  Norm(Sgn(M) * q1, E + s)

\* `n as f64`
FromInt(n) == Round(n, 0)

FNeg(x) == <<-x[1], x[2]>>

\* m * 2^e in units of 2^G; below the grid the low bits collapse into one
\* sticky bit (the unit is at least two bits under the rounding position).
OnGrid(m, e, G) ==
    IF e >= G THEN m * (2 ^ (e - G))
    ELSE LET k == G + 1 - e
             q == IF k >= 31 THEN 0 ELSE Abs(m) \div (2 ^ k)
         IN  Sgn(m) * (2 * q + 1)

FAdd(x, y) ==
    IF x[1] = 0 THEN y
    ELSE IF y[1] = 0 THEN x
    ELSE LET t  == Max2(x[2] + BitLen(Abs(x[1])), y[2] + BitLen(Abs(y[1])))
             lo == Min2(x[2], y[2])
             G  == IF lo >= t - Prec - 3 THEN lo ELSE t - Prec - 4
         IN  Round(OnGrid(x[1], x[2], G) + OnGrid(y[1], y[2], G), G)

FSub(x, y) == FAdd(x, FNeg(y))

FMul(x, y) == Round(x[1] * y[1], x[2] + y[2])

\* x / y for y # 0.
FDiv(x, y) ==
    IF x[1] = 0 THEN <<0, 0>>
    ELSE LET sx == Prec - BitLen(Abs(x[1]))
             sy == Prec - BitLen(Abs(y[1]))
             a  == Abs(x[1]) * (2 ^ sx)
             b  == Abs(y[1]) * (2 ^ sy)
             n  == a * (2 ^ (Prec + 2))
             Q  == n \div b
             M  == 2 * Q + (IF n % b = 0 THEN 0 ELSE 1)
         IN  Round(Sgn(x[1]) * Sgn(y[1]) * M,
                   (x[2] - sx) - (y[2] - sy) - (Prec + 2) - 1)

\* x > y
FGt(x, y) == FSub(x, y)[1] > 0

----------------------------------------------------------------------------
(* Complex<f64> *)

Cx(re, im) == [re |-> re, im |-> im]

CMul(a, b) == Cx(FSub(FMul(a.re, b.re), FMul(a.im, b.im)),
                 FAdd(FMul(a.re, b.im), FMul(a.im, b.re)))

CAdd(a, b) == Cx(FAdd(a.re, b.re), FAdd(a.im, b.im))

norm_sqr(z) == FAdd(FMul(z.re, z.re), FMul(z.im, z.im))

Four == <<1, 2>>

----------------------------------------------------------------------------
(* Option<u32> *)

None == [some |-> FALSE, val |-> 0]

Some(i) == [some |-> TRUE, val |-> i]

\* EscapeStep with the test `>= 4.0` in place of `> 4.0`.
EscapeStepGe(c, s) ==
    IF s.ret THEN s
    ELSE LET z1 == CAdd(CMul(s.z, s.z), c)
         IN  IF ~FGt(Four, norm_sqr(z1))
             THEN [i |-> s.i, z |-> z1, ret |-> TRUE]
             ELSE [i |-> s.i + 1, z |-> z1, ret |-> FALSE]

\* One run of the body of `for i in 0..limit`: s.i is the loop index, s.z the
\* current z, and s.ret is set once `return Some(i)` has been executed.
EscapeStep(c, s) ==
    IF s.ret THEN s
    ELSE LET z1 == CAdd(CMul(s.z, s.z), c)
         IN  IF FGt(norm_sqr(z1), Four)
             THEN [i |-> s.i, z |-> z1, ret |-> TRUE]
             ELSE [i |-> s.i + 1, z |-> z1, ret |-> FALSE]

\* n consecutive runs of the loop body from s (halved, to keep the evaluation
\* shallow); nothing runs after the return.
RECURSIVE EscapeFor(_, _, _)
EscapeFor(c, s, n) ==
    IF n = 0 \/ s.ret THEN s
    ELSE IF n = 1 THEN EscapeStep(c, s)
    ELSE EscapeFor(c, EscapeFor(c, s, n \div 2), n - (n \div 2))

escape_time(c, limit) ==
    LET s == EscapeFor(c, [i |-> 0, z |-> Cx(<<0, 0>>, <<0, 0>>), ret |-> FALSE],
                       limit)
    IN  IF s.ret THEN Some(s.i) ELSE None

pixel_to_point(bounds, pixel, upper_left, lower_right) ==
    LET width  == FSub(lower_right.re, upper_left.re)
        height == FSub(upper_left.im, lower_right.im)
    IN  Cx(FAdd(upper_left.re,
                FDiv(FMul(FromInt(pixel[1]), width), FromInt(bounds[1]))),
           FSub(upper_left.im,
                FDiv(FMul(FromInt(pixel[2]), height), FromInt(bounds[2]))))

----------------------------------------------------------------------------
(* u8 *)

\* `count as u8`: the low eight bits.
AsU8(n) == n % 256

\* render's cap, the 255 of escape_time(point, 255).
Limit == 255

\* Intensity without the inversion: Some(count) => count as u8.
IntensityPlain(e) == IF e.some THEN AsU8(e.val) ELSE 0

\* The match of render: None => 0, Some(count) => 255 - count as u8.
Intensity(e) == IF e.some THEN 255 - AsU8(e.val) ELSE 0

----------------------------------------------------------------------------
(* Bounds of the model *)

MaxWidth == 3

MaxHeight == 9

\* Largest width * height of an image the model renders.
MaxPixels == 9

\* bounds as parsed from the PIXELS argument; a dimension may be 0.
Sizes == {b \in (0..MaxWidth) \X (0..MaxHeight) : b[1] * b[2] <= MaxPixels}

\* (upper_left, lower_right) as parsed from UPPERLEFT and LOWERRIGHT:
\* -2,0.25 -1.75,-0.5 and 0.5,1 1.25,0.25.
Windows ==
    { <<Cx(<<-1, 1>>, <<1, -2>>), Cx(<<-7, -2>>, <<-1, -1>>)>>,
      <<Cx(<<1, -1>>, <<1, 0>>),  Cx(<<5, -2>>, <<1, -2>>)>> }

\* Largest limit of a direct call of escape_time, besides render's 255.
MaxLimit == 6

\* Largest row count of a direct evaluation of main's band geometry.
MaxRows == 40

\* The points of direct calls of escape_time: halves in [-2, 3] x [-1, 1].
EscPoints == {Cx(Norm(a, -1), Norm(b, -1)) : a \in -4..6, b \in -2..2}

\* The windows of direct calls of pixel_to_point: those of main, the window
\* -1,1 1,-1 of test_pixel_to_point, and -1,1.0078125 1,0.1279296875.
PointWindows ==
    Windows \cup
    { <<Cx(<<-1, 0>>, <<1, 0>>),    Cx(<<1, 0>>, <<-1, 0>>)>>,
      <<Cx(<<-1, 0>>, <<129, -7>>), Cx(<<1, 0>>, <<131, -10>>)>> }

\* (bounds, pixel) of direct calls of pixel_to_point: every pixel of a small
\* image, its far edge included, and the case of test_pixel_to_point.
PointPixels ==
    {bp \in ((1..MaxWidth) \X (1..MaxWidth)) \X ((0..MaxWidth) \X (0..MaxWidth)) :
        bp[2][1] <= bp[1][1] /\ bp[2][2] <= bp[1][2]}
    \cup {<<<<100, 100>>, q>> : q \in {<<0, 0>>, <<25, 75>>, <<100, 100>>}}

----------------------------------------------------------------------------
(* main and the band workers *)

VARIABLES
    mainpc,        \* where main is
    bounds,        \* (width, height)
    upper_left,
    lower_right,
    pixels,        \* the pixel buffer, index k of the code at k + 1
    rows_per_thread,
    bands,         \* what chunks_mut collected: [off, len] views of pixels
    next,          \* 1-based index of the band the spawn loop is at
    workers,       \* the spawned closures, in spawn order
    encoded,       \* what write_image was called with
    writes,        \* per buffer index, the workers that wrote it, in order
    esc,           \* per buffer index, the escape_time result last matched
    call,          \* a direct call of one of the pure functions
    ret            \* and its result

vars == <<mainpc, bounds, upper_left, lower_right, pixels, rows_per_thread,
          bands, next, workers, encoded, writes, esc, call, ret>>

Origin == Cx(<<0, 0>>, <<0, 0>>)

NoImage == [called |-> FALSE, pixels |-> <<>>, bounds |-> <<0, 0>>]

NoCall == [fn |-> "none", c |-> Origin, limit |-> 0, bounds |-> <<1, 1>>,
           pixel |-> <<0, 0>>, ul |-> Origin, lr |-> Origin]

NoRet == [done |-> FALSE, opt |-> None, point |-> Origin, geom |-> <<>>,
          panic |-> FALSE]

\* vec![0; n]
Zeros(n) == [k \in 1..n |-> 0]

\* Chunks whose views after the first start one element early.
ChunksEarly(len, size) ==
    [k \in 1..((len + size - 1) \div size) |->
        [off |-> Max2(0, (k - 1) * size - 1),
         len |-> Min2(size, len - (k - 1) * size)]]

\* slice.chunks_mut(size) on a slice of len elements, size > 0: consecutive
\* views of size elements, the last one holding what is left.
Chunks(len, size) ==
    [k \in 1..((len + size - 1) \div size) |->
        [off |-> (k - 1) * size, len |-> Min2(size, len - (k - 1) * size)]]

\* let rows_per_thread = bounds.1 / threads + 1, threads = 8
Threads == 8

\* rows_per_thread as the ceiling of bounds.1 / threads.
RowsPerThreadCeil(height) == (height + Threads - 1) \div Threads

RowsPerThread(height) == height \div Threads + 1

\* top with a 1-based band index.
BandTopOneBased(rpt, i) == rpt * (i + 1)

\* let top = rows_per_thread * i, i the 0-based index of enumerate()
BandTop(rpt, i) == rpt * i

\* height without the division by the width.
BandHeightLen(band, bnds) == band.len

\* let height = band.len() / bounds.0
BandHeight(band, bnds) == band.len \div bnds[1]

MainInit ==
    /\ mainpc = "args"
    /\ bounds = <<0, 0>>
    /\ upper_left = Origin
    /\ lower_right = Origin
    /\ pixels = <<>>
    /\ rows_per_thread = 0
    /\ bands = <<>>
    /\ next = 1
    /\ workers = <<>>
    /\ encoded = NoImage
    /\ writes = <<>>
    /\ esc = <<>>

Init == MainInit /\ call = NoCall /\ ret = NoRet

\* args.len() != 5: the usage message and exit(1).
Usage ==
    /\ mainpc = "args"
    /\ mainpc' = "exit1"
    /\ UNCHANGED <<bounds, upper_left, lower_right, pixels, rows_per_thread,
                   bands, next, workers, encoded, writes, esc, call, ret>>

\* One of the three expect() calls on a parse result panics.
ParseFail ==
    /\ mainpc = "args"
    /\ mainpc' = "panic"
    /\ UNCHANGED <<bounds, upper_left, lower_right, pixels, rows_per_thread,
                   bands, next, workers, encoded, writes, esc, call, ret>>

ParseArgs ==
    /\ mainpc = "args"
    /\ \E b \in Sizes, w \in Windows :
          /\ bounds' = b
          /\ upper_left' = w[1]
          /\ lower_right' = w[2]
    /\ mainpc' = "alloc"
    /\ UNCHANGED <<pixels, rows_per_thread, bands, next, workers, encoded,
                   writes, esc, call, ret>>

\* let mut pixels = vec![0; bounds.0 * bounds.1]; let rows_per_thread = ...
Alloc ==
    /\ mainpc = "alloc"
    /\ pixels' = Zeros(bounds[1] * bounds[2])
    /\ writes' = [k \in 1..(bounds[1] * bounds[2]) |-> <<>>]
    /\ esc' = [k \in 1..(bounds[1] * bounds[2]) |-> None]
    /\ rows_per_thread' = RowsPerThread(bounds[2])
    /\ mainpc' = "chunks"
    /\ UNCHANGED <<bounds, upper_left, lower_right, bands, next, workers,
                   encoded, call, ret>>

\* pixels.chunks_mut(rows_per_thread * bounds.0).collect(); chunks_mut panics
\* on a chunk size of 0.
Partition ==
    /\ mainpc = "chunks"
    /\ IF rows_per_thread * bounds[1] = 0
       THEN /\ mainpc' = "panic"
            /\ UNCHANGED bands
       ELSE /\ bands' = Chunks(Len(pixels), rows_per_thread * bounds[1])
            /\ mainpc' = "scope"
    /\ UNCHANGED <<bounds, upper_left, lower_right, pixels, rows_per_thread,
                   next, workers, encoded, writes, esc, call, ret>>

\* One turn of the for loop in the scope: the band's geometry and the spawn.
Spawn ==
    /\ mainpc = "scope"
    /\ next <= Len(bands)
    /\ LET band   == bands[next]
           top    == BandTop(rows_per_thread, next - 1)
           height == BandHeight(band, bounds)
       IN  workers' = Append(workers,
              [band        |-> band,
               top         |-> top,
               bounds      |-> <<bounds[1], height>>,
               upper_left  |-> pixel_to_point(bounds, <<0, top>>,
                                              upper_left, lower_right),
               lower_right |-> pixel_to_point(bounds, <<bounds[1], top + height>>,
                                              upper_left, lower_right),
               st          |-> "ready",
               row         |-> 0,
               column      |-> 0])
    /\ next' = next + 1
    /\ UNCHANGED <<mainpc, bounds, upper_left, lower_right, pixels,
                   rows_per_thread, bands, encoded, writes, esc, call, ret>>

Finished(w) == w.st \in {"done", "panic"}

\* Join without waiting for the workers.
JoinEarly ==
    /\ mainpc = "scope"
    /\ next > Len(bands)
    /\ mainpc' = "write"
    /\ UNCHANGED <<bounds, upper_left, lower_right, pixels, rows_per_thread,
                   bands, next, workers, encoded, writes, esc, call, ret>>

\* The end of crossbeam::scope: every spawned thread is joined; a panic of a
\* worker is propagated.
Join ==
    /\ mainpc = "scope"
    /\ next > Len(bands)
    /\ \A k \in 1..Len(workers) : Finished(workers[k])
    /\ mainpc' = IF \E k \in 1..Len(workers) : workers[k].st = "panic"
                 THEN "panic" ELSE "write"
    /\ UNCHANGED <<bounds, upper_left, lower_right, pixels, rows_per_thread,
                   bands, next, workers, encoded, writes, esc, call, ret>>

\* write_image(&args[1], &pixels, bounds).expect(...)
WriteImage ==
    /\ mainpc = "write"
    /\ encoded' = [called |-> TRUE, pixels |-> pixels, bounds |-> bounds]
    /\ \E ok \in BOOLEAN : mainpc' = IF ok THEN "finish" ELSE "panic"
    /\ UNCHANGED <<bounds, upper_left, lower_right, pixels, rows_per_thread,
                   bands, next, workers, writes, esc, call, ret>>

\* The closing message and exit(0).
Finish ==
    /\ mainpc = "finish"
    /\ mainpc' = "exit0"
    /\ UNCHANGED <<bounds, upper_left, lower_right, pixels, rows_per_thread,
                   bands, next, workers, encoded, writes, esc, call, ret>>

\* The position of render's two loops after the body ran at (row, column).
Advance(w) ==
    IF w.column + 1 < w.bounds[1]
    THEN [w EXCEPT !.column = w.column + 1, !.st = "loop"]
    ELSE IF w.row + 1 < w.bounds[2]
    THEN [w EXCEPT !.row = w.row + 1, !.column = 0, !.st = "loop"]
    ELSE [w EXCEPT !.st = "done"]

\* A step of worker k in render: on entry the assertion, then one run of the
\* loop body, which writes one pixel of the band.
RenderStep(k) ==
    /\ k \in 1..Len(workers)
    /\ LET w == workers[k]
       IN  /\ w.st \in {"ready", "loop"}
           /\ IF w.st = "ready" /\ w.band.len # w.bounds[1] * w.bounds[2]
              THEN /\ workers' = [workers EXCEPT ![k].st = "panic"]
                   /\ UNCHANGED <<pixels, writes, esc>>
              ELSE IF w.bounds[1] = 0 \/ w.bounds[2] = 0
              THEN /\ workers' = [workers EXCEPT ![k].st = "done"]
                   /\ UNCHANGED <<pixels, writes, esc>>
              ELSE LET idx   == w.row * w.bounds[1] + w.column
                       point == pixel_to_point(w.bounds, <<w.column, w.row>>,
                                               w.upper_left, w.lower_right)
                       e     == escape_time(point, Limit)
                   IN  IF idx >= w.band.len
                       THEN /\ workers' = [workers EXCEPT ![k].st = "panic"]
                            /\ UNCHANGED <<pixels, writes, esc>>
                       ELSE /\ pixels' = [pixels EXCEPT
                                            ![w.band.off + idx + 1] = Intensity(e)]
                            /\ writes' = [writes EXCEPT
                                            ![w.band.off + idx + 1] = Append(@, k)]
                            /\ esc' = [esc EXCEPT ![w.band.off + idx + 1] = e]
                            /\ workers' = [workers EXCEPT ![k] = Advance(w)]
    /\ UNCHANGED <<mainpc, bounds, upper_left, lower_right, rows_per_thread,
                   bands, next, encoded, call, ret>>

\* The band geometry main computes for bounds b: the views of chunks_mut with
\* the top and height the spawn loop gives each.
Geometry(b) ==
    LET rpt == RowsPerThread(b[2])
        bs  == Chunks(b[1] * b[2], rpt * b[1])
    IN  [k \in 1..Len(bs) |->
            [band   |-> bs[k],
             top    |-> BandTop(rpt, k - 1),
             height |-> BandHeight(bs[k], b)]]

\* A direct call of escape_time, as a unit test makes it.
TestEscapeTime ==
    /\ mainpc = "args"
    /\ \E c \in EscPoints, limit \in (0..MaxLimit) \cup {Limit} :
          /\ call' = [NoCall EXCEPT !.fn = "escape_time", !.c = c, !.limit = limit]
          /\ ret' = [NoRet EXCEPT !.done = TRUE, !.opt = escape_time(c, limit)]
    /\ mainpc' = "test"
    /\ UNCHANGED <<bounds, upper_left, lower_right, pixels, rows_per_thread,
                   bands, next, workers, encoded, writes, esc>>

\* A direct call of pixel_to_point, as test_pixel_to_point makes it.
TestPixelToPoint ==
    /\ mainpc = "args"
    /\ \E bp \in PointPixels, w \in PointWindows :
          /\ call' = [NoCall EXCEPT !.fn = "pixel_to_point", !.bounds = bp[1],
                                    !.pixel = bp[2], !.ul = w[1], !.lr = w[2]]
          /\ ret' = [NoRet EXCEPT !.done = TRUE,
                        !.point = pixel_to_point(bp[1], bp[2], w[1], w[2])]
    /\ mainpc' = "test"
    /\ UNCHANGED <<bounds, upper_left, lower_right, pixels, rows_per_thread,
                   bands, next, workers, encoded, writes, esc>>

\* main's band geometry alone, for images too large to render here.
TestBands ==
    /\ mainpc = "args"
    /\ \E b \in (0..MaxWidth) \X (0..MaxRows) :
          /\ call' = [NoCall EXCEPT !.fn = "bands", !.bounds = b]
          /\ ret' = IF RowsPerThread(b[2]) * b[1] = 0
                    THEN [NoRet EXCEPT !.done = TRUE, !.panic = TRUE]
                    ELSE [NoRet EXCEPT !.done = TRUE, !.geom = Geometry(b)]
    /\ mainpc' = "test"
    /\ UNCHANGED <<bounds, upper_left, lower_right, pixels, rows_per_thread,
                   bands, next, workers, encoded, writes, esc>>

MainStep ==
    \/ Usage
    \/ ParseFail
    \/ ParseArgs
    \/ Alloc
    \/ Partition
    \/ Spawn
    \/ Join
    \/ WriteImage
    \/ Finish

TestStep == TestEscapeTime \/ TestPixelToPoint \/ TestBands

Next == MainStep \/ (\E k \in 1..Threads : RenderStep(k)) \/ TestStep

Spec == Init /\ [][Next]_vars

\* main reads its arguments.
StartStep == Usage \/ ParseFail \/ ParseArgs

\* The spawn loop has a band left: the enabling condition of Spawn.
Spawning == mainpc = "scope" /\ next <= Len(bands)

\* Worker k has a step of render to take: the enabling condition of
\* RenderStep(k), every branch of which changes workers.
Running(k) == k \in 1..Len(workers) /\ workers[k].st \in {"ready", "loop"}

\* Threads are scheduled: main and every worker keep running while they can.
\* At most one step of main is enabled at a time, so its weak fairness is that
\* of its steps.  For Spawn and RenderStep(k), the steps that compute in
\* floating point, weak fairness is spelled out with the enabling condition in
\* place of ENABLED.
FairSpec ==
    /\ Spec
    /\ WF_vars(StartStep)
    /\ WF_vars(Alloc)
    /\ WF_vars(Partition)
    /\ WF_vars(Join)
    /\ WF_vars(WriteImage)
    /\ WF_vars(Finish)
    /\ []<>(~Spawning) \/ []<><<Spawn>>_vars
    /\ \A k \in 1..Threads : []<>(~Running(k)) \/ []<><<RenderStep(k)>>_vars

----------------------------------------------------------------------------
(* render run alone over a whole image: the buffer it leaves. *)

render(bnds, ul, lr) ==
    [idx \in 1..(bnds[1] * bnds[2]) |->
        LET row    == (idx - 1) \div bnds[1]
            column == (idx - 1) % bnds[1]
        IN  Intensity(escape_time(pixel_to_point(bnds, <<column, row>>, ul, lr),
                                  Limit))]

----------------------------------------------------------------------------
(* Properties *)

\* The spawn loop has run for every band.
AllSpawned == mainpc \in {"scope", "write", "finish", "exit0"} /\ next > Len(bands)

AllDone == \A k \in 1..Len(workers) : workers[k].st = "done"

\* The geometry the spawn loop gave the workers spawned so far.
WorkerGeom ==
    [k \in 1..Len(workers) |->
        [band |-> workers[k].band, top |-> workers[k].top,
         height |-> workers[k].bounds[2]]]

RowsOf(g) == g.top .. (g.top + g.height - 1)

\* The row ranges of geom are sorted, contiguous and pairwise disjoint.
IsRowPrefix(geom) ==
    /\ \A j, k \in 1..Len(geom) : j < k => geom[j].top < geom[k].top
    /\ \A k \in 1..(Len(geom) - 1) : geom[k + 1].top = geom[k].top + geom[k].height
    /\ \A j, k \in 1..Len(geom) : j # k => RowsOf(geom[j]) \cap RowsOf(geom[k]) = {}

\* ... and their union is exactly [0, H).
IsRowPartition(geom, H) ==
    /\ IsRowPrefix(geom)
    /\ UNION {RowsOf(geom[k]) : k \in 1..Len(geom)} = 0..(H - 1)
    /\ \A r \in 0..(H - 1) :
          Cardinality({k \in 1..Len(geom) : r \in RowsOf(geom[k])}) = 1

BandsCalled == ret.done /\ call.fn = "bands" /\ ~ret.panic

\* C1: for width > 0 and height H > 0 the row ranges [top, top + height) of the
\* bands main builds are sorted, contiguous, pairwise disjoint, and their union
\* is exactly [0, H): every row is in exactly one band.
C1_BandsPartitionRows ==
    /\ bounds[1] > 0 /\ bounds[2] > 0 => IsRowPrefix(WorkerGeom)
    /\ AllSpawned /\ bounds[1] > 0 /\ bounds[2] > 0
          => IsRowPartition(WorkerGeom, bounds[2])
    /\ BandsCalled /\ call.bounds[1] > 0 /\ call.bounds[2] > 0
          => IsRowPartition(ret.geom, call.bounds[2])

\* Every band of a 9-row image is spawned: four bands of 2 rows and one of 1.
C1_Witness ==
    /\ AllSpawned
    /\ bounds[2] = 9
    /\ Len(workers) = 5
    /\ workers[5].bounds[2] < workers[1].bounds[2]

\* C2: in every interleaving of the band workers no buffer index is written
\* twice or by two workers, and once all workers have finished (main is past
\* the scope) every index of [0, width * height) has been written exactly once.
C2_EachIndexWrittenOnce ==
    /\ \A i \in 1..Len(writes) : Len(writes[i]) <= 1
    /\ Len(writes) = Len(pixels)
    /\ mainpc \in {"write", "finish", "exit0"} \/ encoded.called
          => /\ Len(pixels) = bounds[1] * bounds[2]
             /\ \A i \in 1..(bounds[1] * bounds[2]) : Len(writes[i]) = 1

\* Several workers have filled an image of several columns and main has joined.
C2_Witness ==
    /\ mainpc = "write"
    /\ Len(workers) >= 3
    /\ bounds[1] >= 2
    /\ \A i \in 1..Len(writes) : Len(writes[i]) = 1

\* C3: main does not leave the scope, and write_image is not called, before
\* every spawned worker has finished render; once main is in the scope the call
\* of write_image eventually happens; the buffer is not modified after it.
C3_ForkJoin ==
    /\ [](mainpc \in {"write", "finish", "exit0"} \/ encoded.called
            => next > Len(bands) /\ Len(workers) = Len(bands) /\ AllDone)
    /\ (mainpc = "scope" ~> encoded.called)
    /\ [][encoded.called => pixels' = pixels]_vars
    /\ [](encoded.called => encoded.pixels = pixels)

\* write_image has been called on a buffer that several workers filled.
C3_Witness == encoded.called /\ Len(workers) >= 3 /\ AllDone

\* C4 (as claimed): the buffer the banded workers leave is byte for byte the
\* buffer one call of render over the whole image leaves.
C4_BandedEqualsWhole ==
    mainpc = "write" => pixels = render(bounds, upper_left, lower_right)

\* z after n applications of z <- z * z + c from 0, with no early exit.
RECURSIVE Orbit(_, _)
Orbit(c, n) ==
    IF n = 0 THEN Origin
    ELSE LET z == Orbit(c, n - 1) IN CAdd(CMul(z, z), c)

\* The squared magnitude after the (j+1)-th application exceeds 4.
Escapes(c, j) == FGt(norm_sqr(Orbit(c, j + 1)), Four)

EscapeCalled == ret.done /\ call.fn = "escape_time"

\* C5: escape_time(c, limit) returns Some(i) exactly when i is the least index
\* below limit at which the squared magnitude after the (i+1)-th application
\* exceeds 4, and None exactly when there is no such index; 0+0i gives None and
\* 3+0i gives Some(0) for every limit >= 1.
C5_EscapeTimeLeastIndex ==
    EscapeCalled /\ call.limit <= MaxLimit =>
        /\ ret.opt.some =>
              /\ ret.opt.val \in 0..(call.limit - 1)
              /\ Escapes(call.c, ret.opt.val)
              /\ \A j \in 0..(ret.opt.val - 1) : ~Escapes(call.c, j)
        /\ ~ret.opt.some =>
              /\ ret.opt = None
              /\ \A j \in 0..(call.limit - 1) : ~Escapes(call.c, j)
        /\ call.c = Origin /\ call.limit >= 1 => ret.opt = None
        /\ call.c = Cx(<<3, 0>>, <<0, 0>>) /\ call.limit >= 1 => ret.opt = Some(0)

\* A call that returned after the loop ran several times before escaping.
C5_Witness ==
    /\ EscapeCalled
    /\ call.limit <= MaxLimit
    /\ ret.opt.some
    /\ ret.opt.val >= 2

PointCalled == ret.done /\ call.fn = "pixel_to_point"

\* C6 (as claimed): pixel (0, 0) maps to the upper-left corner, pixel
\* (width, height) to the lower-right corner, and pixel (25, 75) of bounds
\* (100, 100) with corners (-1, 1) and (1, -1) to (-0.5, -0.5).
C6_CornersMapToCorners ==
    PointCalled =>
        /\ call.pixel = <<0, 0>> => ret.point = call.ul
        /\ call.pixel = call.bounds => ret.point = call.lr
        /\ /\ call.bounds = <<100, 100>>
           /\ call.pixel = <<25, 75>>
           /\ call.ul = Cx(<<-1, 0>>, <<1, 0>>)
           /\ call.lr = Cx(<<1, 0>>, <<-1, 0>>)
           => ret.point = Cx(<<-1, -1>>, <<-1, -1>>)

\* C7 (as claimed): with a zero width or height main fails before it spawns a
\* worker, enters the scope or calls write_image.
C7_ZeroDimensionFailsFast ==
    mainpc \notin {"args", "test", "exit1"} /\ (bounds[1] = 0 \/ bounds[2] = 0)
        => /\ mainpc \in {"alloc", "chunks", "panic"}
           /\ workers = <<>>
           /\ ~encoded.called

CeilDiv(a, b) == (a + b - 1) \div b

\* geom is the bands of span R over H rows: band i (from 0) covers
\* [i * R, min(H, (i + 1) * R)), and bands starting at or after H are left out.
IsBandsOfSpan(geom, H, R) ==
    /\ Len(geom) = CeilDiv(H, R)
    /\ \A k \in 1..Len(geom) :
          /\ geom[k].top = (k - 1) * R
          /\ geom[k].top + geom[k].height = Min2(H, k * R)

Written(i) == Len(writes[i]) > 0

\* C9: a pixel whose point does not escape within 255 is written as 0 and one
\* that escapes at i as 255 - i, where i is in [0, 254], so `i as u8` keeps i
\* and the byte is in [1, 255]; a written byte is 0 iff its point did not escape.
C9_IntensityOfEscape ==
    /\ \A i \in 1..Len(pixels) : Written(i) =>
          /\ ~esc[i].some => pixels[i] = 0
          /\ esc[i].some =>
                /\ esc[i].val \in 0..254
                /\ AsU8(esc[i].val) = esc[i].val
                /\ pixels[i] = 255 - esc[i].val
                /\ pixels[i] \in 1..255
          /\ pixels[i] = 0 <=> ~esc[i].some
    /\ EscapeCalled /\ call.limit = Limit /\ ret.opt.some
          => ret.opt.val \in 0..254

\* An image with a pixel that did not escape and one that escaped after the
\* first iteration.
C9_Witness ==
    /\ \E i \in 1..Len(pixels) : Written(i) /\ ~esc[i].some
    /\ \E i \in 1..Len(pixels) : Written(i) /\ esc[i].some /\ esc[i].val >= 1

\* C10: for width > 0 and height > 0 every band is non-empty, a whole number of
\* rows long, and at most 8 bands exist; the assertion of render holds in
\* every worker and no worker writes outside its band (no worker panics).
C10_BandsFitWorkers ==
    /\ bounds[1] > 0 /\ bounds[2] > 0 =>
          /\ Len(bands) <= 8
          /\ mainpc = "scope" => Len(bands) >= 1
          /\ \A k \in 1..Len(bands) :
                /\ bands[k].len > 0
                /\ bands[k].len % bounds[1] = 0
          /\ \A k \in 1..Len(workers) :
                /\ workers[k].st # "panic"
                /\ workers[k].band.len = workers[k].bounds[1] * workers[k].bounds[2]
                /\ workers[k].bounds = <<bounds[1], workers[k].band.len \div bounds[1]>>
          /\ \A i \in 1..Len(writes) : \A j \in 1..Len(writes[i]) :
                LET b == workers[writes[i][j]].band
                IN  (i - 1) \in b.off .. (b.off + b.len - 1)
    /\ BandsCalled /\ call.bounds[1] > 0 /\ call.bounds[2] > 0 =>
          /\ Len(ret.geom) \in 1..8
          /\ \A k \in 1..Len(ret.geom) :
                /\ ret.geom[k].band.len > 0
                /\ ret.geom[k].band.len = call.bounds[1] * ret.geom[k].height

\* Every worker of a 7-band image has run render to the end and main has joined.
C10_Witness ==
    /\ Len(workers) = 7
    /\ bounds[1] >= 1
    /\ AllDone
    /\ mainpc = "write"
====
